---- MODULE Spec2Model ----
(***************************************************************************)
(* Model of the pm5 process supervisor (src/pm5/pm5.py).                   *)
(*                                                                         *)
(* The supervisor has one main thread (main, which also runs the signal    *)
(* handler handle_exit) and one Monitor thread per wait_ready instance     *)
(* (monitor_service).  They share the process list `processes`, the map    *)
(* `process_service_map`, the flag `shutdown`, the lock `lock` and the     *)
(* lock file LOCK_FILE (the persisted registry).                           *)
(*                                                                         *)
(* Thread 1 is the main thread; threads 2.. are Monitor threads in the     *)
(* order in which main started them.  A child process is identified by its *)
(* pid, which is its index in `procs`.                                     *)
(***************************************************************************)
EXTENDS Integers, Sequences, FiniteSets, TLC

(***************************************************************************)
(* Bounds of the model.                                                    *)
(***************************************************************************)
\* max_restarts of a service ranges over 0..MaxRestarts
MaxRestarts == 2
\* os.cpu_count() ranges over 1..MaxCpu
MaxCpu == 2
\* |instances| of a service ranges over 1..MaxInstances
MaxInstances == 2
\* number of identifiers in the lock file left by a previous run
MaxOld == 2
\* number of SIGTERM/SIGINT deliveries to the supervisor
MaxSignals == 1

\* The main thread.
Main == 1
\* Lock value when no thread holds it.
Free == 0
\* Value of a thread's local `process` when it holds no process.
NoPid == 0
\* First process-group identifier found in a lock file of a previous run.
OldBase == 100

VARIABLES
    services,            \* config["services"], the list of service objects
    total_cpus,          \* os.cpu_count()
    shutdown,            \* global flag `shutdown`
    lock,                \* global `lock`: Free or the thread holding it
    processes,           \* global list `processes` (pids, in list order)
    process_service_map, \* global dict: set of <<pid, service index>>
    registry,            \* the file LOCK_FILE
    procs,               \* every child ever spawned, indexed by pid
    thr,                 \* the threads, indexed by thread id
    services_started,    \* main's local services_started
    pids,                \* terminate_existing_processes' local pids
    active_pids,         \* terminate_existing_processes' local active_pids
    outcomes,            \* what os.killpg did for pids[1..Len(outcomes)]
    recoveries,          \* number of calls of terminate_existing_processes
    signals,             \* number of signals delivered so far
    kill_sequences,      \* number of times the kill sequence was entered
    sup                  \* the supervisor process: running or exited

vars == <<services, total_cpus, shutdown, lock, processes, process_service_map,
          registry, procs, thr, services_started, pids, active_pids, outcomes,
          recoveries, signals, kill_sequences, sup>>

(***************************************************************************)
(* Helpers.                                                                *)
(***************************************************************************)
Max(a, b) == IF a >= b THEN a ELSE b

Abs(a) == IF a < 0 THEN 0 - a ELSE a

Range(s) == {s[i] : i \in DOMAIN s}

SelectSeqIdx(s, keep) ==
    LET RECURSIVE Go(_)
        Go(i) == IF i > Len(s) THEN <<>>
                 ELSE IF i \in keep THEN <<s[i]>> \o Go(i + 1) ELSE Go(i + 1)
    IN Go(1)

\* list.remove dropping the head of the list, whatever x is
ListRemove_head(s, x) == Tail(s)

\* list.remove(x): drops the first occurrence of x
ListRemove(s, x) ==
    LET first == CHOOSE i \in DOMAIN s : s[i] = x /\ \A j \in 1..(i - 1) : s[j] # x
    IN SelectSeqIdx(s, DOMAIN s \ {first})

(***************************************************************************)
(* The lock file.                                                          *)
(***************************************************************************)
Absent == [state |-> "absent", pids |-> <<>>]

Malformed == [state |-> "malformed", pids |-> <<>>]

ListFile(l) == [state |-> "list", pids |-> l]

\* read_lock_file: the list in the file; [] when absent or not JSON
read_lock_file(file) == IF file.state = "list" THEN file.pids ELSE <<>>

\* update_lock_file adding the list to what the file already holds
update_lock_file_appends(procList) == ListFile(read_lock_file(registry) \o procList)

\* update_lock_file writing the list without its last entry (as if it ran
\* before processes.append)
update_lock_file_stale(procList) ==
    ListFile(IF procList = <<>> THEN <<>> ELSE SubSeq(procList, 1, Len(procList) - 1))

\* update_lock_file: the pids of `processes`, in list order
update_lock_file(procList) == ListFile(procList)

\* clear_lock_file: removes the file when it exists
clear_lock_file(file) == Absent

(***************************************************************************)
(* Service objects of the configuration.  A field that dict.get reads with *)
(* a default is modelled by its value after the default is applied, except *)
(* "instances", whose absence is kept (has_instances).                     *)
(***************************************************************************)
Service(dis, hasInst, inst, wait, auto, maxr) ==
    [disabled |-> dis, has_instances |-> hasInst, instances |-> inst,
     wait_ready |-> wait, autorestart |-> auto, max_restarts |-> maxr]

\* service.get("instances", 1)
get_instances(service) ==
    IF service.has_instances THEN service.instances ELSE 1

\* is_disabled reading no flag at all
is_disabled_ignored(service) == FALSE

\* service.get("disabled", False)
is_disabled(service) == service.disabled

\* instance_count without the floor of 1
instance_count_no_floor(service, cpus) ==
    LET instances == get_instances(service)
    IN IF instances < 0 THEN Max(0, cpus - Abs(instances))
       ELSE instances

\* main: the number of iterations of `for i in range(instances)`
instance_count(service, cpus) ==
    LET instances == get_instances(service)
    IN IF instances < 0 THEN Max(1, cpus - Abs(instances))
       ELSE instances

(***************************************************************************)
(* monitor_service: the loop condition and the decision after an exit.     *)
(***************************************************************************)
monitor_continues(restarts, max_restarts, shut) ==
    restarts <= max_restarts /\ ~shut

\* monitor_decision escalating whenever the budget is not exceeded
monitor_decision_escalates_early(restarts, max_restarts, autorestart, returncode) ==
    IF restarts < max_restarts /\ autorestart THEN "restart"
    ELSE IF restarts <= max_restarts
         THEN IF returncode # 0 THEN "escalate" ELSE "again"
         ELSE "break"

\* monitor_decision with the budget test off by one (<= for <)
monitor_decision_off_by_one(restarts, max_restarts, autorestart, returncode) ==
    IF restarts <= max_restarts /\ autorestart THEN "restart"
    ELSE IF restarts = max_restarts
         THEN IF returncode # 0 THEN "escalate" ELSE "again"
         ELSE "break"

\* "restart": start_service and count it; "escalate": handle_exit;
\* "again": back to the loop condition; "break": leave the loop
monitor_decision(restarts, max_restarts, autorestart, returncode) ==
    IF restarts < max_restarts /\ autorestart THEN "restart"
    ELSE IF restarts = max_restarts
         THEN IF returncode # 0 THEN "escalate" ELSE "again"
         ELSE "break"

(***************************************************************************)
(* Child processes.  state: "running"; "zombie" (exited, not yet waited    *)
(* for: its process group can still be looked up and signalled); "reaped"  *)
(* (waited for: Popen.returncode is set and os.getpgid(pid) raises         *)
(* ProcessLookupError).  term/kill: a SIGTERM/SIGKILL was sent to its      *)
(* group.  by: the thread whose start_service call spawned it.             *)
(***************************************************************************)
NewProc(svc, inst, by) ==
    [svc |-> svc, inst |-> inst, by |-> by, state |-> "running", rc |-> 0,
     term |-> FALSE, kill |-> FALSE]

\* Popen.poll(): None (TRUE here) iff the child has not exited
poll_is_none(p) == p.state = "running"

\* the child after Popen.poll() / Popen.wait(timeout) looked at it
Reap(p) == IF p.state = "zombie" THEN [p EXCEPT !.state = "reaped"] ELSE p

\* os.getpgid(pid) raises ProcessLookupError
lookup_fails(p) == p.state = "reaped"

\* cleanup_processes, SIGTERM loop: the position in procList of the first
\* process whose os.getpgid raises (inside the try and again inside the
\* except clause's log line, so the exception leaves the loop); 0 if none
term_loop_raises_at(procList, ps) ==
    LET bad == {i \in DOMAIN procList : lookup_fails(ps[procList[i]])}
    IN IF bad = {} THEN 0 ELSE CHOOSE i \in bad : \A j \in bad : i <= j

\* cleanup_processes, SIGTERM loop: the children after it
term_loop(procList, ps) ==
    LET stop == term_loop_raises_at(procList, ps)
        hit  == {procList[i] : i \in {j \in DOMAIN procList : stop = 0 \/ j < stop}}
    IN [p \in DOMAIN ps |-> IF p \in hit THEN [ps[p] EXCEPT !.term = TRUE] ELSE ps[p]]

\* cleanup_processes SIGKILL loop and handle_exit's re-scan: a child whose
\* poll() is None gets SIGKILL; poll() reaps a child that has exited
kill_loop(procList, ps) ==
    [p \in DOMAIN ps |->
        IF p \in Range(procList)
        THEN IF poll_is_none(ps[p]) THEN [ps[p] EXCEPT !.kill = TRUE] ELSE Reap(ps[p])
        ELSE ps[p]]

\* cleanup_processes wait loop: process.wait(timeout=5) reaps a child that
\* has exited; TimeoutExpired for one that has not is caught
reap_loop(procList, ps) ==
    [p \in DOMAIN ps |-> IF p \in Range(procList) THEN Reap(ps[p]) ELSE ps[p]]

(***************************************************************************)
(* terminate_existing_processes: what happens to one persisted identifier. *)
(* "ok": both os.killpg calls succeed; "gone": ProcessLookupError (from    *)
(* either call); "denied": PermissionError.                                *)
(***************************************************************************)
KillpgOutcomes == {"ok", "gone", "denied"}

\* recover_append keeping an identifier whose signalling was denied
recover_append_keeps_denied(active, pid, outcome) ==
    IF outcome # "gone" THEN Append(active, pid) ELSE active

recover_append(active, pid, outcome) ==
    IF outcome = "ok" THEN Append(active, pid) ELSE active

recover_write(active, file) ==
    IF active # <<>> THEN ListFile(active) ELSE clear_lock_file(file)

(***************************************************************************)
(* Threads.  pc is the thread's position; intr is, for the main thread     *)
(* running the signal handler, the position it was interrupted at.         *)
(* svc/inst: service index and instance id (main: its loop variables).     *)
(* process: monitor_service's local `process`.  new: start_service's local *)
(* `process` between Popen and return.                                     *)
(***************************************************************************)
MainThread ==
    [pc |-> "main_start", intr |-> "none", svc |-> 1, inst |-> 0,
     process |-> NoPid, new |-> NoPid, restarts |-> 0]

MonitorThread(svc, inst, pid) ==
    [pc |-> "mon_loop", intr |-> "none", svc |-> svc, inst |-> inst,
     process |-> pid, new |-> NoPid, restarts |-> 0]

Threads == DOMAIN thr

Monitors == Threads \ {Main}

Running == sup.status = "running"

SupRunning == [status |-> "running", code |-> 0, via |-> "none"]

SupExited(code, via) == [status |-> "exited", code |-> code, via |-> via]

\* positions inside handle_exit / cleanup_processes
HandlerPcs == {"he_check", "cu_check", "cu_set", "cu_term", "cu_kill",
               "cu_reap", "cu_clear", "he_scan", "he_exit"}

\* the thread after an exception left its top frame
Crashed(t) == [thr[t] EXCEPT !.pc = "crashed", !.intr = "none", !.new = NoPid]

(***************************************************************************)
(* Initial states: main has not run yet; the configuration, the CPU count  *)
(* and the lock file left by a previous run are the inputs.                *)
(***************************************************************************)
InitWith(configs, cpus, files) ==
    /\ services \in configs
    /\ total_cpus \in cpus
    /\ registry \in files
    /\ shutdown = FALSE
    /\ lock = Free
    /\ processes = <<>>
    /\ process_service_map = {}
    /\ procs = <<>>
    /\ thr = <<MainThread>>
    /\ services_started = FALSE
    /\ pids = <<>>
    /\ active_pids = <<>>
    /\ outcomes = <<>>
    /\ recoveries = 0
    /\ signals = 0
    /\ kill_sequences = 0
    /\ sup = SupRunning

(***************************************************************************)
(* main                                                                    *)
(***************************************************************************)
\* main_then with terminate_existing_processes called after the service loop
\* is entered (recovery skipped before the first launch)
main_then_skips_recovery(pos) ==
    CASE pos = "main_start"   -> "main_loop"
      [] pos = "recover_read" -> "recover_loop"
      [] pos = "recover_loop" -> "recover_ret"
      [] pos = "recover_ret"  -> "main_loop"

\* the order of main's statements up to the service loop: register the
\* handlers, terminate_existing_processes (read, loop, write, return), then
\* read the configuration and enter `for service in services`
main_then(pos) ==
    CASE pos = "main_start"   -> "recover_read"
      [] pos = "recover_read" -> "recover_loop"
      [] pos = "recover_loop" -> "recover_ret"
      [] pos = "recover_ret"  -> "main_loop"

\* signal.signal(SIGTERM, handle_exit); signal.signal(SIGINT, handle_exit)
RegisterHandlers ==
    /\ Running
    /\ thr[Main].pc = "main_start"
    /\ thr' = [thr EXCEPT ![Main].pc = main_then("main_start")]
    /\ UNCHANGED <<services, total_cpus, shutdown, lock, processes,
                   process_service_map, registry, procs, services_started, pids,
                   active_pids, outcomes, recoveries, signals, kill_sequences, sup>>

\* terminate_existing_processes: pids = read_lock_file(); active_pids = []
RecoverRead ==
    /\ Running
    /\ thr[Main].pc = "recover_read"
    /\ pids' = read_lock_file(registry)
    /\ active_pids' = <<>>
    /\ outcomes' = <<>>
    /\ recoveries' = recoveries + 1
    /\ thr' = [thr EXCEPT ![Main].pc = main_then("recover_read")]
    /\ UNCHANGED <<services, total_cpus, shutdown, lock, processes,
                   process_service_map, registry, procs, services_started,
                   signals, kill_sequences, sup>>

\* terminate_existing_processes: one iteration of `for pid in pids`
RecoverStep ==
    /\ Running
    /\ thr[Main].pc = "recover_loop"
    /\ Len(outcomes) < Len(pids)
    /\ \E o \in KillpgOutcomes :
        /\ outcomes' = Append(outcomes, o)
        /\ active_pids' = recover_append(active_pids, pids[Len(outcomes) + 1], o)
    /\ UNCHANGED <<services, total_cpus, shutdown, lock, processes,
                   process_service_map, registry, procs, thr, services_started,
                   pids, recoveries, signals, kill_sequences, sup>>

\* terminate_existing_processes: after the loop, rewrite or clear the lock file
RecoverWrite ==
    /\ Running
    /\ thr[Main].pc = "recover_loop"
    /\ Len(outcomes) = Len(pids)
    /\ registry' = recover_write(active_pids, registry)
    /\ thr' = [thr EXCEPT ![Main].pc = main_then("recover_loop")]
    /\ UNCHANGED <<services, total_cpus, shutdown, lock, processes,
                   process_service_map, procs, services_started, pids,
                   active_pids, outcomes, recoveries, signals, kill_sequences, sup>>

\* terminate_existing_processes returns (its locals are gone); main reads
\* the configuration and reaches the service loop
RecoverReturn ==
    /\ Running
    /\ thr[Main].pc = "recover_ret"
    /\ pids' = <<>>
    /\ active_pids' = <<>>
    /\ outcomes' = <<>>
    /\ thr' = [thr EXCEPT ![Main].pc = main_then("recover_ret")]
    /\ UNCHANGED <<services, total_cpus, shutdown, lock, processes,
                   process_service_map, registry, procs, services_started,
                   recoveries, signals, kill_sequences, sup>>

\* main: `for service in services` / `for i in range(instances)`: skip a
\* disabled service, move to the next service, or call start_service
MainLoop ==
    /\ Running
    /\ thr[Main].pc = "main_loop"
    /\ thr[Main].svc <= Len(services)
    /\ LET service == services[thr[Main].svc]
       IN IF is_disabled(service) \/ thr[Main].inst >= instance_count(service, total_cpus)
          THEN thr' = [thr EXCEPT ![Main].svc = @ + 1, ![Main].inst = 0]
          ELSE thr' = [thr EXCEPT ![Main].pc = "ss_popen"]
    /\ UNCHANGED <<services, total_cpus, shutdown, lock, processes,
                   process_service_map, registry, procs, services_started, pids,
                   active_pids, outcomes, recoveries, signals, kill_sequences, sup>>

\* main: after the loops, with services_started: the idle loop
MainIdle ==
    /\ Running
    /\ thr[Main].pc = "main_loop"
    /\ thr[Main].svc > Len(services)
    /\ services_started
    /\ thr' = [thr EXCEPT ![Main].pc = "idle"]
    /\ UNCHANGED <<services, total_cpus, shutdown, lock, processes,
                   process_service_map, registry, procs, services_started, pids,
                   active_pids, outcomes, recoveries, signals, kill_sequences, sup>>

\* main: after the loops, without services_started: sys.exit(1).  No
\* Monitor thread exists then, so the interpreter exits at once.
MainNoServices ==
    /\ Running
    /\ thr[Main].pc = "main_loop"
    /\ thr[Main].svc > Len(services)
    /\ ~services_started
    /\ sup' = SupExited(1, "sys_exit")
    /\ thr' = [thr EXCEPT ![Main].pc = "done"]
    /\ UNCHANGED <<services, total_cpus, shutdown, lock, processes,
                   process_service_map, registry, procs, services_started, pids,
                   active_pids, outcomes, recoveries, signals, kill_sequences>>

(***************************************************************************)
(* start_service, run by main or by a Monitor thread                       *)
(***************************************************************************)
\* subprocess.Popen(..., preexec_fn=os.setsid) succeeds
Popen(t) ==
    /\ Running
    /\ thr[t].pc = "ss_popen"
    /\ procs' = Append(procs, NewProc(thr[t].svc, thr[t].inst, t))
    /\ thr' = [thr EXCEPT ![t].pc = "ss_lock", ![t].new = Len(procs) + 1]
    /\ UNCHANGED <<services, total_cpus, shutdown, lock, processes,
                   process_service_map, registry, services_started, pids,
                   active_pids, outcomes, recoveries, signals, kill_sequences, sup>>

\* subprocess.Popen raises (missing executable, ...): nothing catches it
PopenFails(t) ==
    /\ Running
    /\ thr[t].pc = "ss_popen"
    /\ thr' = [thr EXCEPT ![t] = Crashed(t)]
    /\ UNCHANGED <<services, total_cpus, shutdown, lock, processes,
                   process_service_map, registry, procs, services_started, pids,
                   active_pids, outcomes, recoveries, signals, kill_sequences, sup>>

\* `with lock:` entered; processes.append(process); process_service_map[pid] = name
Insert(t) ==
    /\ Running
    /\ thr[t].pc = "ss_lock"
    /\ lock = Free
    /\ lock' = t
    /\ processes' = Append(processes, thr[t].new)
    /\ process_service_map' = process_service_map \cup {<<thr[t].new, thr[t].svc>>}
    /\ thr' = [thr EXCEPT ![t].pc = "ss_update"]
    /\ UNCHANGED <<services, total_cpus, shutdown, registry, procs,
                   services_started, pids, active_pids, outcomes, recoveries,
                   signals, kill_sequences, sup>>

\* update_lock_file(); the lock is released; start_service returns.
\* In main: services_started = True, and a Monitor thread is started for a
\* wait_ready service.  In monitor_service: process = ...; restarts += 1.
UpdateAndReturn(t) ==
    /\ Running
    /\ thr[t].pc = "ss_update"
    /\ registry' = update_lock_file(processes)
    /\ lock' = Free
    /\ IF t = Main
       THEN /\ services_started' = TRUE
            /\ LET me == [thr[Main] EXCEPT !.pc = "main_loop", !.inst = @ + 1,
                                           !.new = NoPid]
               IN thr' = IF services[thr[Main].svc].wait_ready
                         THEN Append([thr EXCEPT ![Main] = me],
                                     MonitorThread(thr[Main].svc, thr[Main].inst,
                                                   thr[Main].new))
                         ELSE [thr EXCEPT ![Main] = me]
       ELSE /\ services_started' = services_started
            /\ thr' = [thr EXCEPT ![t].pc = "mon_loop", ![t].process = thr[t].new,
                                  ![t].new = NoPid, ![t].restarts = @ + 1]
    /\ UNCHANGED <<services, total_cpus, shutdown, processes, process_service_map,
                   procs, pids, active_pids, outcomes, recoveries, signals,
                   kill_sequences, sup>>

(***************************************************************************)
(* monitor_service, one thread per wait_ready instance                     *)
(***************************************************************************)
\* `while restarts <= max_restarts and not shutdown`
MonLoop(t) ==
    /\ Running
    /\ t # Main
    /\ thr[t].pc = "mon_loop"
    /\ thr' = [thr EXCEPT ![t].pc =
                 IF monitor_continues(thr[t].restarts,
                                      services[thr[t].svc].max_restarts, shutdown)
                 THEN "mon_wait" ELSE "done"]
    /\ UNCHANGED <<services, total_cpus, shutdown, lock, processes,
                   process_service_map, registry, procs, services_started, pids,
                   active_pids, outcomes, recoveries, signals, kill_sequences, sup>>

\* process.wait() returns: the child has exited (and is reaped by the wait)
MonWait(t) ==
    /\ Running
    /\ thr[t].pc = "mon_wait"
    /\ ~poll_is_none(procs[thr[t].process])
    /\ procs' = [procs EXCEPT ![thr[t].process] = Reap(@)]
    /\ thr' = [thr EXCEPT ![t].pc = "mon_lock"]
    /\ UNCHANGED <<services, total_cpus, shutdown, lock, processes,
                   process_service_map, registry, services_started, pids,
                   active_pids, outcomes, recoveries, signals, kill_sequences, sup>>

\* `with lock:` entered; `if process in processes: processes.remove(process)`.
\* When the process is not in the list the block ends at once.
MonRemove(t) ==
    /\ Running
    /\ thr[t].pc = "mon_lock"
    /\ lock = Free
    /\ IF thr[t].process \in Range(processes)
       THEN /\ processes' = ListRemove(processes, thr[t].process)
            /\ lock' = t
            /\ thr' = [thr EXCEPT ![t].pc = "mon_update"]
       ELSE /\ UNCHANGED <<processes, lock>>
            /\ thr' = [thr EXCEPT ![t].pc = "mon_check"]
    /\ UNCHANGED <<services, total_cpus, shutdown, process_service_map, registry,
                   procs, services_started, pids, active_pids, outcomes,
                   recoveries, signals, kill_sequences, sup>>

\* update_lock_file(); the lock is released
MonUpdate(t) ==
    /\ Running
    /\ thr[t].pc = "mon_update"
    /\ registry' = update_lock_file(processes)
    /\ lock' = Free
    /\ thr' = [thr EXCEPT ![t].pc = "mon_check"]
    /\ UNCHANGED <<services, total_cpus, shutdown, processes, process_service_map,
                   procs, services_started, pids, active_pids, outcomes,
                   recoveries, signals, kill_sequences, sup>>

\* `if shutdown: break`, then the decision on the exit code and the budget
MonCheck(t) ==
    /\ Running
    /\ thr[t].pc = "mon_check"
    /\ LET service == services[thr[t].svc]
           what == monitor_decision(thr[t].restarts, service.max_restarts,
                                    service.autorestart, procs[thr[t].process].rc)
       IN thr' = [thr EXCEPT ![t].pc =
                    IF shutdown THEN "done"
                    ELSE CASE what = "restart"  -> "ss_popen"
                           [] what = "escalate" -> "he_check"
                           [] what = "again"    -> "mon_loop"
                           [] OTHER             -> "done"]
    /\ UNCHANGED <<services, total_cpus, shutdown, lock, processes,
                   process_service_map, registry, procs, services_started, pids,
                   active_pids, outcomes, recoveries, signals, kill_sequences, sup>>

(***************************************************************************)
(* handle_exit and cleanup_processes, run by the main thread as the signal *)
(* handler or by a Monitor thread whose budget is exhausted                *)
(***************************************************************************)
\* the thread after handle_exit returned without exiting
Returned(t) ==
    IF t = Main THEN [thr[t] EXCEPT !.pc = thr[t].intr, !.intr = "none"]
    ELSE [thr[t] EXCEPT !.pc = "mon_loop"]

\* handle_exit: `if shutdown is True: return`
handle_exit_returns(shut) == shut

\* cleanup_processes without its early return
cleanup_never_returns(shut) == FALSE

\* cleanup_processes: `if shutdown is True: ... return`
cleanup_returns(shut) == shut

HeCheck(t) ==
    /\ Running
    /\ thr[t].pc = "he_check"
    /\ thr' = [thr EXCEPT ![t] = IF handle_exit_returns(shutdown) THEN Returned(t)
                                 ELSE [thr[t] EXCEPT !.pc = "cu_check"]]
    /\ UNCHANGED <<services, total_cpus, shutdown, lock, processes,
                   process_service_map, registry, procs, services_started, pids,
                   active_pids, outcomes, recoveries, signals, kill_sequences, sup>>

CuCheck(t) ==
    /\ Running
    /\ thr[t].pc = "cu_check"
    /\ thr' = [thr EXCEPT ![t].pc = IF cleanup_returns(shutdown) THEN "he_scan"
                                    ELSE "cu_set"]
    /\ UNCHANGED <<services, total_cpus, shutdown, lock, processes,
                   process_service_map, registry, procs, services_started, pids,
                   active_pids, outcomes, recoveries, signals, kill_sequences, sup>>

\* cleanup_processes: shutdown = True
CuSet(t) ==
    /\ Running
    /\ thr[t].pc = "cu_set"
    /\ shutdown' = TRUE
    /\ thr' = [thr EXCEPT ![t].pc = "cu_term"]
    /\ UNCHANGED <<services, total_cpus, lock, processes, process_service_map,
                   registry, procs, services_started, pids, active_pids, outcomes,
                   recoveries, signals, kill_sequences, sup>>

\* cleanup_processes: `with lock:` entered and the SIGTERM loop run.  If a
\* lookup raises, the exception leaves cleanup_processes (releasing the
\* lock) and handle_exit, and ends the thread.
CuTerm(t) ==
    /\ Running
    /\ thr[t].pc = "cu_term"
    /\ lock = Free
    /\ kill_sequences' = kill_sequences + 1
    /\ procs' = term_loop(processes, procs)
    /\ IF term_loop_raises_at(processes, procs) = 0
       THEN /\ lock' = t
            /\ thr' = [thr EXCEPT ![t].pc = "cu_kill"]
       ELSE /\ lock' = Free
            /\ thr' = [thr EXCEPT ![t] = Crashed(t)]
    /\ UNCHANGED <<services, total_cpus, shutdown, processes, process_service_map,
                   registry, services_started, pids, active_pids, outcomes,
                   recoveries, signals, sup>>

\* cleanup_processes: after time.sleep(1), the SIGKILL loop
CuKill(t) ==
    /\ Running
    /\ thr[t].pc = "cu_kill"
    /\ procs' = kill_loop(processes, procs)
    /\ thr' = [thr EXCEPT ![t].pc = "cu_reap"]
    /\ UNCHANGED <<services, total_cpus, shutdown, lock, processes,
                   process_service_map, registry, services_started, pids,
                   active_pids, outcomes, recoveries, signals, kill_sequences, sup>>

\* cleanup_processes: the process.wait(timeout=5) loop
CuReap(t) ==
    /\ Running
    /\ thr[t].pc = "cu_reap"
    /\ procs' = reap_loop(processes, procs)
    /\ thr' = [thr EXCEPT ![t].pc = "cu_clear"]
    /\ UNCHANGED <<services, total_cpus, shutdown, lock, processes,
                   process_service_map, registry, services_started, pids,
                   active_pids, outcomes, recoveries, signals, kill_sequences, sup>>

\* cleanup_processes: clear_lock_file(); the lock is released; return
CuClear(t) ==
    /\ Running
    /\ thr[t].pc = "cu_clear"
    /\ registry' = clear_lock_file(registry)
    /\ lock' = Free
    /\ thr' = [thr EXCEPT ![t].pc = "he_scan"]
    /\ UNCHANGED <<services, total_cpus, shutdown, processes, process_service_map,
                   procs, services_started, pids, active_pids, outcomes,
                   recoveries, signals, kill_sequences, sup>>

\* handle_exit: `with lock:` the re-scan of processes, SIGKILL to those
\* still running; the lock is released
HeScan(t) ==
    /\ Running
    /\ thr[t].pc = "he_scan"
    /\ lock = Free
    /\ procs' = kill_loop(processes, procs)
    /\ thr' = [thr EXCEPT ![t].pc = "he_exit"]
    /\ UNCHANGED <<services, total_cpus, shutdown, lock, processes,
                   process_service_map, registry, services_started, pids,
                   active_pids, outcomes, recoveries, signals, kill_sequences, sup>>

\* handle_exit: os._exit(1)
HeExit(t) ==
    /\ Running
    /\ thr[t].pc = "he_exit"
    /\ sup' = SupExited(1, "handle_exit")
    /\ UNCHANGED <<services, total_cpus, shutdown, lock, processes,
                   process_service_map, registry, procs, thr, services_started,
                   pids, active_pids, outcomes, recoveries, signals,
                   kill_sequences>>

(***************************************************************************)
(* Environment                                                             *)
(***************************************************************************)
\* SIGTERM or SIGINT is delivered: the main thread runs handle_exit at its
\* next bytecode boundary, wherever it is, once the handlers are registered.
\* (A signal arriving while the handler runs finds `shutdown` as the handler
\* left it and adds no behaviour; it is not modelled.)
Signal ==
    /\ Running
    /\ signals < MaxSignals
    /\ thr[Main].pc \notin ({"main_start", "crashed", "done"} \cup HandlerPcs)
    /\ signals' = signals + 1
    /\ thr' = [thr EXCEPT ![Main].intr = thr[Main].pc, ![Main].pc = "he_check"]
    /\ UNCHANGED <<services, total_cpus, shutdown, lock, processes,
                   process_service_map, registry, procs, services_started, pids,
                   active_pids, outcomes, recoveries, kill_sequences, sup>>

\* exit codes a child can end with: 0, or 1 for any non-zero code; a child
\* that was sent SIGKILL ends non-zero
ExitCodes(p) == IF p.kill THEN {1} ELSE {0, 1}

\* a running child exits, by itself or because of a signal it was sent
ProcExit(p) ==
    /\ Running
    /\ procs[p].state = "running"
    /\ \E rc \in ExitCodes(procs[p]) :
         procs' = [procs EXCEPT ![p].state = "zombie", ![p].rc = rc]
    /\ UNCHANGED <<services, total_cpus, shutdown, lock, processes,
                   process_service_map, registry, thr, services_started, pids,
                   active_pids, outcomes, recoveries, signals, kill_sequences, sup>>

\* the main thread ended with an exception: the interpreter exits with
\* status 1 once every Monitor thread (non-daemon) has ended
InterpreterExit ==
    /\ Running
    /\ thr[Main].pc = "crashed"
    /\ \A t \in Monitors : thr[t].pc \in {"done", "crashed"}
    /\ sup' = SupExited(1, "crash")
    /\ UNCHANGED <<services, total_cpus, shutdown, lock, processes,
                   process_service_map, registry, procs, thr, services_started,
                   pids, active_pids, outcomes, recoveries, signals,
                   kill_sequences>>

Next ==
    \/ RegisterHandlers
    \/ RecoverRead
    \/ RecoverStep
    \/ RecoverWrite
    \/ RecoverReturn
    \/ MainLoop
    \/ MainIdle
    \/ MainNoServices
    \/ Signal
    \/ InterpreterExit
    \/ \E t \in Threads :
        \/ Popen(t)
        \/ PopenFails(t)
        \/ Insert(t)
        \/ UpdateAndReturn(t)
        \/ MonLoop(t)
        \/ MonWait(t)
        \/ MonRemove(t)
        \/ MonUpdate(t)
        \/ MonCheck(t)
        \/ HeCheck(t)
        \/ CuCheck(t)
        \/ CuSet(t)
        \/ CuTerm(t)
        \/ CuKill(t)
        \/ CuReap(t)
        \/ CuClear(t)
        \/ HeScan(t)
        \/ HeExit(t)
    \/ \E p \in DOMAIN procs : ProcExit(p)

(***************************************************************************)
(* Inputs.                                                                 *)
(***************************************************************************)
SeqsUpTo(S, n) == UNION {[1..k -> S] : k \in 0..n}

\* a monitored (wait_ready) one-instance service without "instances" field
Monitored(auto, maxr) == Service(FALSE, FALSE, 1, TRUE, auto, maxr)

\* an unmonitored one-instance service
Plain == Service(FALSE, FALSE, 1, FALSE, FALSE, 0)

\* a disabled service
Disabled == Service(TRUE, TRUE, 1, TRUE, TRUE, 1)

\* every restart policy of a monitored service
PolicyServices ==
    {Monitored(a, m) : a \in BOOLEAN, m \in 0..MaxRestarts}

\* one monitored service of any policy, alone or before an unmonitored
\* service; two monitored services without budget; nothing enabled
PolicyConfigs ==
    {<<s>> : s \in PolicyServices}
    \cup {<<s, Plain>> : s \in PolicyServices}
    \cup {<<Monitored(a, 0), Monitored(FALSE, 0)>> : a \in BOOLEAN}
    \cup {<<Disabled>>}

\* the values of the "instances" field
InstanceValues == ((0 - MaxInstances)..MaxInstances) \ {0}

\* services that differ in how many instances they ask for
CountServices ==
    {Service(FALSE, TRUE, n, FALSE, FALSE, 0) : n \in InstanceValues}
    \cup {Service(FALSE, FALSE, 1, w, FALSE, 0) : w \in BOOLEAN}

\* one such service, alone, after a disabled one, or before an unmonitored
\* one; nothing enabled
CountConfigs ==
    {<<s>> : s \in CountServices} \cup {<<Disabled, s>> : s \in CountServices}
    \cup {<<s, Plain>> : s \in CountServices} \cup {<<Disabled>>}

\* lock files a previous run can have left
OldPids == (OldBase + 1)..(OldBase + MaxOld)

OldFiles == {Absent, Malformed} \cup {ListFile(l) : l \in SeqsUpTo(OldPids, MaxOld)}

\* restart policies and shutdown
Init == InitWith(PolicyConfigs, {1}, {Absent, ListFile(<<OldBase + 1>>)})

Spec == Init /\ [][Next]_vars

\* startup: instance counts
InitStartup == InitWith(CountConfigs, 1..MaxCpu, {Absent, ListFile(<<OldBase + 1>>)})

SpecStartup == InitStartup /\ [][Next]_vars

\* crash recovery: lock files of a previous run
InitRecovery == InitWith({<<Monitored(TRUE, 1)>>, <<Disabled>>}, {1}, OldFiles)

SpecRecovery == InitRecovery /\ [][Next]_vars

\* disabled services with every value of their other fields
DisabledServices ==
    {Service(TRUE, TRUE, n, w, a, m) :
        n \in InstanceValues, w \in BOOLEAN, a \in BOOLEAN, m \in 0..MaxRestarts}
    \cup {Service(TRUE, FALSE, 1, w, a, m) :
            w \in BOOLEAN, a \in BOOLEAN, m \in 0..MaxRestarts}

\* a disabled service alone, before a monitored or after a restarting service
DisabledConfigs ==
    {<<d>> : d \in DisabledServices}
    \cup {<<d, Monitored(FALSE, 0)>> : d \in DisabledServices}
    \cup {<<Monitored(TRUE, 1), d>> : d \in DisabledServices}

\* startup: disabled services
InitDisabled == InitWith(DisabledConfigs, {MaxCpu}, {Absent, ListFile(<<OldBase + 1>>)})

SpecDisabled == InitDisabled /\ [][Next]_vars

(***************************************************************************)
(* Vocabulary of the properties.                                           *)
(***************************************************************************)
\* where main is, looking through a running signal handler
MainPos == IF thr[Main].intr # "none" THEN thr[Main].intr ELSE thr[Main].pc

\* the children Monitor t has launched itself (its restarts)
Relaunched(t) == {p \in DOMAIN procs : procs[p].by = t}

\* every child of the instance Monitor t supervises
InstanceProcs(t) ==
    {p \in DOMAIN procs : procs[p].svc = thr[t].svc /\ procs[p].inst = thr[t].inst}

Failed(p) == procs[p].state # "running" /\ procs[p].rc # 0

\* so far every exit of a child of Monitor t's instance was non-zero
AlwaysFails(t) ==
    \A p \in InstanceProcs(t) : procs[p].state # "running" => procs[p].rc # 0

\* Monitor t is inside handle_exit, which it called itself
Escalating(t) == t \in Monitors /\ thr[t].pc \in HandlerPcs

\* Monitor t takes its decision step
Decides(t) == thr[t].pc = "mon_check" /\ thr'[t].pc # "mon_check"

(***************************************************************************)
(* C1: restart budget.  A Monitor of an autorestart service with           *)
(* max_restarts = N never re-launches more than N times; while every exit  *)
(* it observes is non-zero and no shutdown is under way, it answers each   *)
(* of the first N failures by a re-launch and failure N+1 by handle_exit,  *)
(* so when it calls handle_exit it has re-launched exactly N times and     *)
(* N+1 children of its instance have failed.                               *)
(***************************************************************************)
C1_RestartBudget ==
    /\ [](\A t \in Monitors :
            LET service == services[thr[t].svc]
                N == service.max_restarts
            IN service.autorestart =>
                 /\ Cardinality(Relaunched(t)) <= N
                 /\ (Escalating(t) /\ AlwaysFails(t)) =>
                      /\ Cardinality(Relaunched(t)) = N
                      /\ Cardinality({p \in InstanceProcs(t) : Failed(p)}) = N + 1)
    /\ [][\A t \in Monitors :
            LET service == services[thr[t].svc]
                N == service.max_restarts
            IN (/\ service.autorestart
                /\ Decides(t)
                /\ ~shutdown
                /\ procs[thr[t].process].rc # 0)
               => thr'[t].pc = IF Cardinality(Relaunched(t)) < N THEN "ss_popen"
                               ELSE "he_check"]_vars

\* C1 witness: with max_restarts = 2 a Monitor is in handle_exit after two
\* re-launches and three failures
C1_Witness ==
    \E t \in Monitors :
        /\ services[thr[t].svc].autorestart
        /\ services[thr[t].svc].max_restarts = 2
        /\ thr[t].pc = "cu_check"
        /\ Cardinality(Relaunched(t)) = 2
        /\ Cardinality({p \in InstanceProcs(t) : Failed(p)}) = 3

(***************************************************************************)
(* C2: a Monitor of a service with max_restarts = 0 never re-launches and  *)
(* a non-zero exit of its process never makes it trigger the global        *)
(* shutdown (it never calls handle_exit).                                  *)
(***************************************************************************)
C2_NoBudgetLeavesOthersAlone ==
    \A t \in Monitors :
        services[thr[t].svc].max_restarts = 0 =>
            /\ Relaunched(t) = {}
            /\ ~Escalating(t)

(***************************************************************************)
(* C3: once the shutdown flag is true, no step launches a new child.       *)
(***************************************************************************)
C3_NoLaunchAfterShutdown ==
    [][shutdown => Len(procs') = Len(procs)]_vars

(***************************************************************************)
(* C4: when the supervisor has exited through handle_exit, every child it  *)
(* ever launched has exited or was sent SIGKILL, and the exit status is a  *)
(* failure status.                                                         *)
(***************************************************************************)
C4_NoChildSurvives ==
    sup.via = "handle_exit" =>
        /\ sup.code # 0
        /\ \A p \in DOMAIN procs : procs[p].state # "running" \/ procs[p].kill

(***************************************************************************)
(* C5: the kill sequence of cleanup_processes is entered at most once.     *)
(***************************************************************************)
C5_KillSequenceOnce == kill_sequences <= 1

(***************************************************************************)
(* C6: a call of cleanup_processes made after another call has returned    *)
(* only returns: it sends no signal, waits for no child, leaves the        *)
(* process list, the map, the lock and the lock file alone and does not    *)
(* enter the kill sequence.                                                *)
(***************************************************************************)
\* some call of cleanup_processes by a thread other than t has returned
OtherCallReturned(t) ==
    \E u \in Threads \ {t} : thr[u].pc \in {"he_scan", "he_exit"}

C6_SecondCallIsNoOp ==
    [][\A t \in Threads :
         (/\ thr[t].pc = "cu_check"
          /\ thr'[t].pc # "cu_check"
          /\ OtherCallReturned(t))
         => /\ thr'[t].pc = "he_scan"
            /\ UNCHANGED <<procs, processes, process_service_map, registry, lock,
                           shutdown, kill_sequences>>]_vars

\* C6 witness: two threads are past cleanup_processes and the kill sequence
\* ran once, so one of the calls was the no-op
C6_Witness ==
    /\ kill_sequences = 1
    /\ registry = Absent
    /\ \E t, u \in Threads :
         /\ t # u
         /\ thr[t].pc = "he_scan"
         /\ thr[u].pc \in {"he_scan", "he_exit"}

(***************************************************************************)
(* C7: the lock file equals the process list after every insertion and     *)
(* removal, and the list mutation and the rewrite are inside one critical  *)
(* section: a thread between its mutation and its rewrite holds the lock,  *)
(* and whenever the lock is free the lock file, unless it was cleared by   *)
(* the shutdown or no process was inserted yet, lists exactly the pids of  *)
(* the process list in order.                                              *)
(***************************************************************************)
C7_TableRegistryConsistent ==
    /\ \A t \in Threads : thr[t].pc \in {"ss_update", "mon_update"} => lock = t
    /\ (lock = Free /\ process_service_map # {} /\ registry # Absent)
         => /\ registry.state = "list"
            /\ Len(registry.pids) = Len(processes)
            /\ \A i \in DOMAIN processes : registry.pids[i] = processes[i]

\* C7 witness: after an insertion and a removal of another process the lock
\* is free and the lock file lists the one remaining process
C7_Witness ==
    /\ lock = Free
    /\ Len(procs) >= 2
    /\ Len(processes) = 1
    /\ registry = ListFile(processes)
    /\ \E t \in Monitors : thr[t].pc = "mon_check"

(***************************************************************************)
(* C8: when terminate_existing_processes has written its result, the lock  *)
(* file holds exactly the persisted identifiers whose process group was    *)
(* signalled successfully, in their original order, and is absent when     *)
(* there is none.                                                          *)
(***************************************************************************)
Signalled == SelectSeqIdx(pids, {i \in DOMAIN pids : outcomes[i] = "ok"})

C8_RecoveryResult ==
    thr[Main].pc = "recover_ret" =>
        /\ Len(outcomes) = Len(pids)
        /\ IF Signalled = <<>> THEN registry = Absent
           ELSE registry = ListFile(Signalled)

\* C8 witness: of two persisted identifiers the first was stale and the
\* second signalled; the lock file now holds the second only
C8_Witness ==
    /\ thr[Main].pc = "recover_ret"
    /\ pids = <<OldBase + 1, OldBase + 2>>
    /\ outcomes = <<"gone", "ok">>
    /\ registry = ListFile(<<OldBase + 2>>)


(***************************************************************************)
(* C9: terminate_existing_processes runs exactly once, and no child is     *)
(* launched and no Monitor started before it has completed.                *)
(***************************************************************************)
InRecovery ==
    MainPos \in {"main_start", "recover_read", "recover_loop", "recover_ret"}

C9_RecoveryBeforeLaunch ==
    /\ recoveries <= 1
    /\ InRecovery => (procs = <<>> /\ processes = <<>> /\ Threads = {Main})
    /\ ~InRecovery => recoveries = 1
    /\ MainPos = "recover_ret" => Len(outcomes) = Len(pids)

\* C9 witness: the first child is launched, after a recovery that signalled
\* a persisted identifier
C9_Witness ==
    /\ Len(procs) = 1
    /\ thr[Main].pc = "ss_lock"
    /\ recoveries = 1
    /\ registry = ListFile(<<OldBase + 1>>)

(***************************************************************************)
(* C10: when main has finished its startup loops, it has created for every *)
(* enabled service exactly n tracked processes if instances = n > 0,       *)
(* exactly max(1, cpuCount - k) if instances = -k, and exactly 1 if the    *)
(* field is missing.                                                       *)
(***************************************************************************)
\* the processes main has created and tracked for service i
StartedByMain(i) ==
    {p \in DOMAIN procs :
        procs[p].by = Main /\ procs[p].svc = i /\ <<p, i>> \in process_service_map}

ExpectedInstances(service) ==
    IF ~service.has_instances THEN 1
    ELSE IF service.instances > 0 THEN service.instances
    ELSE IF total_cpus + service.instances >= 1 THEN total_cpus + service.instances
    ELSE 1

C10_InstanceCount ==
    MainPos = "idle" =>
        \A i \in DOMAIN services :
            ~services[i].disabled =>
                Cardinality(StartedByMain(i)) = ExpectedInstances(services[i])

\* C10 witness: startup is complete for a service with instances = -2 on a
\* machine with 2 CPUs, with the one process of the floor
C10_Witness ==
    /\ MainPos = "idle"
    /\ total_cpus = 2
    /\ \E i \in DOMAIN services :
         /\ ~services[i].disabled
         /\ services[i].has_instances
         /\ services[i].instances = 0 - 2
         /\ Cardinality(StartedByMain(i)) = 1

(***************************************************************************)
(* C11: a disabled service, whatever its other fields, never gets a child, *)
(* a tracked process or a Monitor, and the step in which main skips it     *)
(* leaves the process list, the map, the lock file and the threads alone.  *)
(***************************************************************************)
C11_DisabledServiceUntouched ==
    /\ [](\A i \in DOMAIN services :
            services[i].disabled =>
                /\ \A p \in DOMAIN procs : procs[p].svc # i
                /\ \A e \in process_service_map : e[2] # i
                /\ \A t \in Monitors : thr[t].svc # i)
    /\ [][(/\ thr[Main].pc = "main_loop"
           /\ thr[Main].svc \in DOMAIN services
           /\ services[thr[Main].svc].disabled
           /\ thr'[Main] # thr[Main]
           /\ thr'[Main].pc # "he_check")
          => /\ thr'[Main].pc = "main_loop"
             /\ thr'[Main].svc = thr[Main].svc + 1
             /\ Len(thr') = Len(thr)
             /\ UNCHANGED <<processes, process_service_map, registry, procs>>]_vars

\* C11 witness: main has finished startup with a disabled service that asks
\* for two monitored, restarting instances, and only the other service runs
C11_Witness ==
    /\ MainPos = "idle"
    /\ Len(services) = 2
    /\ services[1] = Service(TRUE, TRUE, 2, TRUE, TRUE, 1)
    /\ Len(procs) = 1
    /\ procs[1].svc = 2
    /\ Len(thr) = 2

(***************************************************************************)
(* C12: a launch failure during startup is fatal only when no instance at  *)
(* all was started: once main has started an instance and no shutdown is   *)
(* under way, main is still running its startup loop or its idle wait (the *)
(* failure did not end it) and the supervisor has not exited with status 1.*)
(***************************************************************************)
C12_LaunchFailureNotFatal ==
    (services_started /\ ~shutdown) =>
        /\ thr[Main].pc # "crashed"
        /\ ~(sup.status = "exited" /\ sup.code = 1)

(***************************************************************************)
(* C13: a failing process-group lookup in the SIGTERM loop is not fatal:   *)
(* the step that ends the loop has signalled every tracked process whose   *)
(* lookup succeeds, and takes cleanup_processes on to its SIGKILL loop     *)
(* (from where the wait loop and clear_lock_file follow).                  *)
(***************************************************************************)
C13_LookupFailureNotFatal ==
    [][\A t \in Threads :
          (thr[t].pc = "cu_term" /\ thr'[t].pc # "cu_term") =>
              /\ thr'[t].pc = "cu_kill"
              /\ \A p \in Range(processes) :
                    ~lookup_fails(procs[p]) => procs'[p].term]_vars

\* the tracked children that have not exited
TrackedRunning == {p \in Range(processes) : procs[p].state = "running"}

(***************************************************************************)
(* C14: the phases of one cleanup_processes execution, on any thread: the  *)
(* SIGTERM loop ends with every tracked child that has not exited          *)
(* signalled; the SIGKILL loop then signals exactly the tracked children   *)
(* that have not exited, all of which got SIGTERM before; the wait loop    *)
(* follows; and during shutdown the lock file is cleared only by the step  *)
(* that follows the wait loop.                                             *)
(***************************************************************************)
C14_PhaseOrder ==
    [][\A t \in Threads :
          /\ (thr[t].pc = "cu_term" /\ thr'[t].pc # "cu_term") =>
                \A p \in TrackedRunning : procs'[p].term
          /\ (thr[t].pc = "cu_kill" /\ thr'[t].pc # "cu_kill") =>
                /\ thr'[t].pc = "cu_reap"
                /\ \A p \in DOMAIN procs :
                      procs'[p].kill <=> (procs[p].kill \/ p \in TrackedRunning)
                /\ \A p \in TrackedRunning : procs[p].term
          /\ (thr[t].pc = "cu_reap" /\ thr'[t].pc # "cu_reap") =>
                /\ thr'[t].pc = "cu_clear"
                /\ \A p \in Range(processes) : procs'[p].state # "zombie"
          /\ (shutdown /\ registry # Absent /\ registry' = Absent) =>
                \E u \in Threads : thr[u].pc = "cu_clear" /\ thr'[u].pc = "he_scan"]_vars

\* the children start_service has put into the process list
Inserted == {e[1] : e \in process_service_map}

(***************************************************************************)
(* C15 as stated: every child launched by start_service that has not       *)
(* exited is in the process list.                                          *)
(***************************************************************************)
C15_LaunchedRunningTracked ==
    \A p \in DOMAIN procs : procs[p].state = "running" => p \in Range(processes)

(***************************************************************************)
(* C15 amended: every child that start_service has inserted into the       *)
(* process list and that has not exited is in the list; a child leaves the *)
(* list only by the step of the Monitor whose wait on it has returned,     *)
(* and it has exited by then.                                              *)
(***************************************************************************)
C15_InsertedRunningTracked ==
    /\ [](\A p \in Inserted : procs[p].state = "running" => p \in Range(processes))
    /\ [][\A p \in Range(processes) :
             p \notin Range(processes') =>
                 /\ procs[p].state # "running"
                 /\ \E t \in Monitors :
                       /\ thr[t].pc = "mon_lock"
                       /\ thr[t].process = p
                       /\ thr'[t].pc = "mon_update"]_vars

\* C15 witness: a Monitor has removed its exited child while the child of
\* another service is running and still in the list
C15_Witness ==
    /\ ~shutdown
    /\ \E p \in Inserted : p \notin Range(processes) /\ procs[p].state = "reaped"
    /\ \E q \in Range(processes) : procs[q].state = "running"

\* Monitor t supervises a service without autorestart and has budget left
NoRestartPolicy(t) ==
    /\ ~services[thr[t].svc].autorestart
    /\ thr[t].restarts < services[thr[t].svc].max_restarts

(***************************************************************************)
(* C16: a Monitor of a service without autorestart and with restarts <     *)
(* max_restarts never launches a child and never calls handle_exit; its    *)
(* decision step after the first exit, zero or not, with no shutdown under *)
(* way, finds the child removed from the process list, ends the Monitor    *)
(* and changes nothing else: the shutdown flag, the children, the process  *)
(* list, the lock file and every other thread stay as they are.            *)
(***************************************************************************)
C16_NoRestartPolicyEnds ==
    /\ [](\A t \in Monitors :
            NoRestartPolicy(t) => (Relaunched(t) = {} /\ ~Escalating(t)))
    /\ [][\A t \in Monitors :
             (Decides(t) /\ NoRestartPolicy(t) /\ ~shutdown) =>
                 /\ thr[t].process \notin Range(processes)
                 /\ thr' = [thr EXCEPT ![t].pc = "done"]
                 /\ UNCHANGED <<shutdown, lock, processes, process_service_map,
                                registry, procs, kill_sequences, sup>>]_vars

\* C16 witness: the Monitor of a service without autorestart has ended after
\* a failure of its child, no shutdown was requested, and the child of the
\* other service is running and tracked
C16_Witness ==
    /\ ~shutdown
    /\ \E t \in Monitors :
          /\ NoRestartPolicy(t)
          /\ thr[t].pc = "done"
          /\ Failed(thr[t].process)
          /\ thr[t].process \notin Range(processes)
    /\ \E q \in Range(processes) : procs[q].state = "running"

(***************************************************************************)
(* C17: a Monitor does not keep iterating on a child it has already waited *)
(* for: while no shutdown is under way, a Monitor that is in process.wait() *)
(* waits on a child that has not been reaped yet (after a clean exit at    *)
(* restarts = max_restarts it has left its loop instead).                  *)
(***************************************************************************)
C17_CleanExitEndsMonitor ==
    \A t \in Monitors :
        (~shutdown /\ thr[t].pc = "mon_wait") =>
            procs[thr[t].process].state # "reaped"

(***************************************************************************)
(* C18: shutdown cannot self-deadlock: no thread ever stands at a `with    *)
(* lock:` of cleanup_processes or handle_exit while it holds the           *)
(* non-reentrant lock itself (from where it could never go on).            *)
(***************************************************************************)
C18_NoSelfDeadlock ==
    \A t \in Threads : ~(thr[t].pc \in {"cu_term", "he_scan"} /\ lock = t)

\* some thread is past cleanup_processes, in the rest of handle_exit
PastCleanup == \E u \in Threads : thr[u].pc \in {"he_scan", "he_exit"}

(***************************************************************************)
(* C19: once the shutdown has cleared the lock file, no step writes it     *)
(* again, and the lock file is absent when the supervisor has exited       *)
(* through handle_exit.                                                    *)
(***************************************************************************)
C19_RegistryStaysCleared ==
    /\ [](sup.via = "handle_exit" => registry = Absent)
    /\ [][(shutdown /\ PastCleanup /\ registry = Absent) => registry' = Absent]_vars

\* the identifiers of a previous run that the lock file holds
Recovered == Range(read_lock_file(registry)) \cap OldPids

(***************************************************************************)
(* C20: the update_lock_file of the first start_service after recovery     *)
(* replaces the identifiers that recovery wrote back by the identifiers of *)
(* the process list alone, and once main has started an instance the lock  *)
(* file never holds an identifier of the previous run again.               *)
(***************************************************************************)
C20_RecoveredNotRetained ==
    /\ [](services_started => Recovered = {})
    /\ [][(/\ thr[Main].pc = "ss_update"
           /\ thr'[Main].pc = "main_loop"
           /\ Recovered # {})
          => /\ registry' = ListFile(processes)
             /\ Range(processes) \cap OldPids = {}
             /\ processes # <<>>]_vars

\* C20 witness: recovery wrote back both identifiers of the previous run,
\* and the first start_service holds the lock with its child in the process
\* list, about to rewrite the lock file
C20_Witness ==
    /\ thr[Main].pc = "ss_update"
    /\ lock = Main
    /\ ~services_started
    /\ processes = <<1>>
    /\ recoveries = 1
    /\ registry = ListFile(<<OldBase + 1, OldBase + 2>>)

====
